---- MODULE Spec2Model ----
(***************************************************************************)
(* Model of src/converter/converter.js: the CurrencyConverter page         *)
(* controller.  The state is the controller's fields and the DOM elements   *)
(* it reads and writes; one action per event handler and one per           *)
(* resolution of an awaited fetch.                                          *)
(***************************************************************************)
EXTENDS Integers, Sequences, FiniteSets, TLC

VARIABLES
    loadPc,             \* loadCurrencies(): awaiting, loaded, failed (caught), threw
    currencies,         \* this.currencies: code -> display name
    fromOptions,        \* option values of the fromCurrency selector (placeholder excluded)
    toOptions,          \* option values of the toCurrency selector (placeholder excluded)
    fromValue,          \* this.fromCurrency.value
    toValue,            \* this.toCurrency.value
    amountValue,        \* this.amountInput.value, a tuple of characters
    convertBtnDisabled, \* this.convertBtn.disabled
    resultsContent,     \* what this.resultsContent shows
    lastConversion,     \* this.lastConversion: <<>> is null, <<r>> holds r
    pending,            \* conversion fetches in flight, in the order they were issued
    overtaken,          \* how many of the oldest pending fetches a later one has outrun
    event               \* the handler that ran last and the branch it took

vars == <<loadPc, currencies, fromOptions, toOptions, fromValue, toValue,
          amountValue, convertBtnDisabled, resultsContent, lastConversion,
          pending, overtaken, event>>

(***************************************************************************)
(* Bounds of the model                                                      *)
(***************************************************************************)
MaxPending == 2

(***************************************************************************)
(* JavaScript numbers: finite rationals n/d in lowest terms, NaN, +-Infinity *)
(***************************************************************************)
Abs(x) == IF x < 0 THEN -x ELSE x

RECURSIVE Gcd(_, _)
Gcd(a, b) == IF b = 0 THEN a ELSE Gcd(b, a % b)

NaN == [k |-> "nan", n |-> 0, d |-> 1]
Infinity == [k |-> "inf", n |-> 1, d |-> 1]
NegInfinity == [k |-> "inf", n |-> -1, d |-> 1]

Num(n, d) ==
    LET g == Gcd(Abs(n), Abs(d))
        s == IF d < 0 THEN -1 ELSE 1
    IN  [k |-> "fin", n |-> s * (n \div g), d |-> s * (d \div g)]

One == Num(1, 1)

\* x > 0 in JavaScript: false for NaN
Gt0(x) == x.k # "nan" /\ x.n > 0

\* x <= 0 in JavaScript: false for NaN
Le0(x) == x.k # "nan" /\ x.n <= 0

\* truthiness of a number: NaN and 0 are falsy
TruthyNum(x) == x.k = "inf" \/ (x.k = "fin" /\ x.n # 0)

Sign(x) == IF x.n < 0 THEN -1 ELSE 1

\* a / b in JavaScript
Div(a, b) ==
    CASE a.k = "nan" \/ b.k = "nan" -> NaN
      [] a.k = "inf" /\ b.k = "inf" -> NaN
      [] a.k = "inf" -> IF Sign(a) * Sign(b) > 0 THEN Infinity ELSE NegInfinity
      [] b.k = "inf" -> Num(0, 1)
      [] b.n = 0 /\ a.n = 0 -> NaN
      [] b.n = 0 -> IF a.n > 0 THEN Infinity ELSE NegInfinity
      [] OTHER -> Num(a.n * b.d, a.d * b.n)

(***************************************************************************)
(* parseFloat on a tuple of characters: leading blanks, a sign, then        *)
(* "Infinity" or the longest prefix of digits with an optional fraction.    *)
(* The inputs of the model hold no exponent part.                           *)
(***************************************************************************)
Digits == {"0", "1", "2", "3", "4", "5", "6", "7", "8", "9"}

DigitVal(c) ==
    CASE c = "0" -> 0 [] c = "1" -> 1 [] c = "2" -> 2 [] c = "3" -> 3
      [] c = "4" -> 4 [] c = "5" -> 5 [] c = "6" -> 6 [] c = "7" -> 7
      [] c = "8" -> 8 [] c = "9" -> 9

InfinityLiteral == <<"I", "n", "f", "i", "n", "i", "t", "y">>

Drop(s, n) == SubSeq(s, n + 1, Len(s))

RECURSIVE SkipBlanks(_)
SkipBlanks(s) ==
    IF s # <<>> /\ Head(s) = " " THEN SkipBlanks(Tail(s)) ELSE s

RECURSIVE DigitRun(_)
DigitRun(s) ==
    IF s # <<>> /\ Head(s) \in Digits THEN 1 + DigitRun(Tail(s)) ELSE 0

RECURSIVE DigitsValue(_, _)
DigitsValue(s, n) ==
    IF n = 0 THEN 0 ELSE 10 * DigitsValue(s, n - 1) + DigitVal(s[n])

RECURSIVE Pow10(_)
Pow10(n) == IF n = 0 THEN 1 ELSE 10 * Pow10(n - 1)

StartsWith(s, p) == Len(s) >= Len(p) /\ SubSeq(s, 1, Len(p)) = p

ParseFloat(str) ==
    LET s0 == SkipBlanks(str)
        neg == s0 # <<>> /\ Head(s0) = "-"
        signed == s0 # <<>> /\ Head(s0) \in {"-", "+"}
        s1 == IF signed THEN Tail(s0) ELSE s0
        ip == DigitRun(s1)
        s2 == Drop(s1, ip)
        dot == s2 # <<>> /\ Head(s2) = "."
        fp == IF dot THEN DigitRun(Tail(s2)) ELSE 0
        mant == DigitsValue(s1, ip) * Pow10(fp)
                  + (IF dot THEN DigitsValue(Tail(s2), fp) ELSE 0)
        sg == IF neg THEN -1 ELSE 1
    IN  IF StartsWith(s1, InfinityLiteral)
        THEN (IF neg THEN NegInfinity ELSE Infinity)
        ELSE IF ip = 0 /\ fp = 0 THEN NaN
        ELSE Num(sg * mant, Pow10(fp))

(***************************************************************************)
(* Inputs: what the user can type and what the service can answer           *)
(***************************************************************************)
AmountInputs ==
    { <<>>,
      <<"-", "0", ".", "5">>,
      <<"a", "b", "c">>,
      <<"1", "0">>,
      InfinityLiteral }

CurrencyNames ==
    [c \in {"USD", "EUR"} |-> CASE c = "USD" -> "US Dollar" [] c = "EUR" -> "Euro"]

Catalog(S) == [c \in S |-> CurrencyNames[c]]

\* bodies GET /currencies can answer with
Catalogs == { Catalog({"USD", "EUR"}), Catalog({"USD"}), Catalog({"EUR"}) }

\* values of rates[toCurrency] GET /latest can answer with
ConvertedAmounts == { Num(9215, 100) }

\* ways a fetch can fail: bad status, rejected fetch, body that does not parse
Failures == {"status", "transport", "body"}

LoadResponses ==
    [kind : {"ok"}, body : Catalogs] \cup [kind : Failures, body : {Catalog({})}]

ConvertResponses ==
    [kind : {"ok"}, value : ConvertedAmounts] \cup [kind : Failures, value : {NaN}]

(***************************************************************************)
(* The results region                                                       *)
(***************************************************************************)
NoText == ""

Blank ==
    [kind |-> "none", message |-> NoText, convertedAmount |-> NaN, fromCurrency |-> "",
     toCurrency |-> "", rate |-> NaN, displayAmount |-> NaN, toCurrencyName |-> ""]

showLoading(message) == [Blank EXCEPT !.kind = "loading", !.message = message]

showError(message) == [Blank EXCEPT !.kind = "error", !.message = message]

\* a || b on strings
OrElse(a, b) == IF a # "" THEN a ELSE b

Lookup(cat, code) == IF code \in DOMAIN cat THEN cat[code] ELSE ""

\* a faulty variant: the amount line always reads the amount field
displayResultOfField(convertedAmount, fromCurrency, toCurrency, rate, originalAmount) ==
    [kind |-> "result", message |-> NoText,
     convertedAmount |-> convertedAmount,
     fromCurrency |-> fromCurrency,
     toCurrency |-> toCurrency,
     rate |-> rate,
     displayAmount |-> ParseFloat(amountValue),
     toCurrencyName |-> OrElse(Lookup(currencies, toCurrency), toCurrency)]

\* originalAmount is <<>> for the default null, <<x>> for a passed number
displayResult(convertedAmount, fromCurrency, toCurrency, rate, originalAmount) ==
    [kind |-> "result", message |-> NoText,
     convertedAmount |-> convertedAmount,
     fromCurrency |-> fromCurrency,
     toCurrency |-> toCurrency,
     rate |-> rate,
     displayAmount |-> IF originalAmount # <<>> /\ TruthyNum(originalAmount[1])
                       THEN originalAmount[1]
                       ELSE ParseFloat(amountValue),
     toCurrencyName |-> OrElse(Lookup(currencies, toCurrency), toCurrency)]

LoadingCurrencies == "Loading currencies..."
Converting == "Converting..."
FailedToLoad == "Failed to load currencies. Please refresh the page."
FailedToConvert == "Failed to convert currency. Please try again."
FillInFields == "Please fill in all fields with valid values."

(***************************************************************************)
(* The handlers                                                             *)
(***************************************************************************)
Ev(op, outcome, stale) == [op |-> op, outcome |-> outcome, stale |-> stale]

\* a.localeCompare(b) on the codes of the model
CodeRank(c) == CASE c = "EUR" -> 1 [] c = "USD" -> 2

RECURSIVE SortedCodes(_)
SortedCodes(S) ==
    IF S = {} THEN <<>>
    ELSE LET m == CHOOSE x \in S : \A y \in S : CodeRank(x) <= CodeRank(y)
         IN  <<m>> \o SortedCodes(S \ {m})

Range(s) == {s[i] : i \in 1..Len(s)}

\* selector.value = v: a value that is no option selects nothing
SelectValue(options, v) == IF v \in Range(options) THEN v ELSE ""

\* a faulty variant: the selectors list every known code, not the catalog's keys
populateEveryCode(cat) == SortedCodes(DOMAIN CurrencyNames)

\* the option list both selectors get from a catalog
populateCurrencyDropdowns(cat) == SortedCodes(DOMAIN cat)

\* the selection of a repopulated selector after the default is applied
DefaultValue(cat, options, code) ==
    IF Lookup(cat, code) # "" THEN SelectValue(options, code) ELSE ""

\* a faulty variant: the source default tests and selects EUR
setDefaultFromEUR(cat, options) == DefaultValue(cat, options, "EUR")

setDefaultFrom(cat, options) == DefaultValue(cat, options, "USD")

setDefaultTo(cat, options) == DefaultValue(cat, options, "EUR")

\* isValid of validateForm
validateForm(f, t, a) ==
    f # "" /\ t # "" /\ a # <<>> /\ Gt0(ParseFloat(a))

\* a faulty variant: the amount <= 0 test is missing
RejectsFalsyOnly(f, t, amount) ==
    f = "" \/ t = "" \/ ~TruthyNum(amount)

\* the guard of performConversion that rejects the fields
Rejects(f, t, amount) ==
    f = "" \/ t = "" \/ ~TruthyNum(amount) \/ Le0(amount)

\* a faulty variant: the short-circuit for equal currencies is missing
IsIdentityNever(f, t) == FALSE

IsIdentity(f, t) == f = t

\* a faulty variant: the operands of the division are exchanged
ConversionRateInverted(convertedAmount, amount) == Div(amount, convertedAmount)

ConversionRate(convertedAmount, amount) == Div(convertedAmount, amount)

\* a faulty variant: only the bad-status error is caught
LoadCatchesStatusOnly(kind) == kind = "status"

\* the catch clause of loadCurrencies takes every error
LoadCatches(kind) == TRUE

\* a faulty variant: swap converts again without a stored conversion
SwapReconvertsOnAmount(last, a) == a # <<>>

\* the condition under which swapCurrencies converts again
SwapReconverts(last, a) == last # <<>> /\ a # <<>>

Request(f, t, amount) ==
    [fromCurrency |-> f, toCurrency |-> t, amount |-> amount]

\* performConversion up to its await, on the selections f and t
performConversion(f, t, op) ==
    LET amount == ParseFloat(amountValue)
    IN  IF Rejects(f, t, amount)
        THEN /\ resultsContent' = showError(FillInFields)
             /\ event' = Ev(op, "invalid", FALSE)
             /\ UNCHANGED <<convertBtnDisabled, pending>>
        ELSE IF IsIdentity(f, t)
        THEN /\ resultsContent' = displayResult(amount, f, t, One, <<>>)
             /\ event' = Ev(op, "identity", FALSE)
             /\ UNCHANGED <<convertBtnDisabled, pending>>
        ELSE /\ Len(pending) < MaxPending
             /\ resultsContent' = showLoading(Converting)
             /\ convertBtnDisabled' = TRUE
             /\ pending' = Append(pending, Request(f, t, amount))
             /\ event' = Ev(op, "sent", FALSE)

\* the response of GET /currencies arrives
loadCurrencies(resp) ==
    /\ loadPc = "awaiting"
    /\ IF resp.kind = "ok"
       THEN LET options == populateCurrencyDropdowns(resp.body)
                f == setDefaultFrom(resp.body, options)
                t == setDefaultTo(resp.body, options)
            IN  /\ currencies' = resp.body
                /\ fromOptions' = options
                /\ toOptions' = options
                /\ fromValue' = f
                /\ toValue' = t
                /\ convertBtnDisabled' = ~validateForm(f, t, amountValue)
                /\ loadPc' = "loaded"
                /\ event' = Ev("load", "ok", FALSE)
                /\ UNCHANGED resultsContent
       ELSE /\ loadPc' = IF LoadCatches(resp.kind) THEN "failed" ELSE "threw"
            /\ resultsContent' = IF LoadCatches(resp.kind)
                                 THEN showError(FailedToLoad) ELSE resultsContent
            /\ event' = Ev("load", "failed", FALSE)
            /\ UNCHANGED <<currencies, fromOptions, toOptions, fromValue, toValue,
                           convertBtnDisabled>>
    /\ UNCHANGED <<amountValue, lastConversion, pending, overtaken>>

\* 'input' on the amount field
InputAmount(a) ==
    /\ a # amountValue
    /\ amountValue' = a
    /\ convertBtnDisabled' = ~validateForm(fromValue, toValue, a)
    /\ event' = Ev("edit", "none", FALSE)
    /\ UNCHANGED <<loadPc, currencies, fromOptions, toOptions, fromValue, toValue,
                   resultsContent, lastConversion, pending, overtaken>>

\* 'change' on the fromCurrency selector
ChangeFrom(c) ==
    /\ c \in Range(fromOptions) \cup {""}
    /\ c # fromValue
    /\ fromValue' = c
    /\ convertBtnDisabled' = ~validateForm(c, toValue, amountValue)
    /\ event' = Ev("edit", "none", FALSE)
    /\ UNCHANGED <<loadPc, currencies, fromOptions, toOptions, toValue, amountValue,
                   resultsContent, lastConversion, pending, overtaken>>

\* 'change' on the toCurrency selector
ChangeTo(c) ==
    /\ c \in Range(toOptions) \cup {""}
    /\ c # toValue
    /\ toValue' = c
    /\ convertBtnDisabled' = ~validateForm(fromValue, c, amountValue)
    /\ event' = Ev("edit", "none", FALSE)
    /\ UNCHANGED <<loadPc, currencies, fromOptions, toOptions, fromValue, amountValue,
                   resultsContent, lastConversion, pending, overtaken>>

\* 'submit' on the form, which a disabled submit button withholds
handleConversion ==
    /\ ~convertBtnDisabled
    /\ performConversion(fromValue, toValue, "submit")
    /\ UNCHANGED <<loadPc, currencies, fromOptions, toOptions, fromValue, toValue,
                   amountValue, lastConversion, overtaken>>

\* a faulty variant: the selections are exchanged whatever they are
SwapExchangesAlways(f, t) == TRUE

\* the guard of swapCurrencies: both selections are non-empty
SwapExchanges(f, t) == f # "" /\ t # ""

\* 'click' on the swap button
swapCurrencies ==
    /\ IF SwapExchanges(fromValue, toValue)
       THEN /\ fromValue' = SelectValue(fromOptions, toValue)
            /\ toValue' = SelectValue(toOptions, fromValue)
            /\ IF SwapReconverts(lastConversion, amountValue)
               THEN performConversion(fromValue', toValue', "swap")
               ELSE /\ event' = Ev("swap", "none", FALSE)
                    /\ UNCHANGED <<convertBtnDisabled, resultsContent, pending>>
       ELSE /\ event' = Ev("swap", "skipped", FALSE)
            /\ UNCHANGED <<fromValue, toValue, convertBtnDisabled, resultsContent,
                           pending>>
    /\ UNCHANGED <<loadPc, currencies, fromOptions, toOptions, amountValue,
                   lastConversion, overtaken>>

\* pending without its i-th request
Resolved(p, i) == [j \in 1..(Len(p) - 1) |-> IF j < i THEN p[j] ELSE p[j + 1]]

\* the first `overtaken' requests of pending were issued before a request whose
\* response has been rendered already; the count after the i-th resolves
Overtaken(n, i, ok) == IF i <= n THEN n - 1 ELSE IF ok THEN i - 1 ELSE n

\* a faulty variant: a failed response clears the stored conversion
StoredConversionCleared(resp, r, rate) ==
    IF resp.kind = "ok"
    THEN <<[fromCurrency |-> r.fromCurrency, toCurrency |-> r.toCurrency,
            amount |-> r.amount, rate |-> rate]>>
    ELSE <<>>

\* a faulty variant: the fields are read again after the await
StoredConversionFromFields(resp, r, rate) ==
    IF resp.kind = "ok"
    THEN <<[fromCurrency |-> fromValue, toCurrency |-> toValue,
            amount |-> ParseFloat(amountValue), rate |-> rate]>>
    ELSE lastConversion

\* this.lastConversion after the response to request r was handled
StoredConversion(resp, r, rate) ==
    IF resp.kind = "ok"
    THEN <<[fromCurrency |-> r.fromCurrency, toCurrency |-> r.toCurrency,
            amount |-> r.amount, rate |-> rate]>>
    ELSE lastConversion

\* a faulty variant: validateForm is called in the try block, not in finally
ButtonAfterSettleOnSuccess(resp) ==
    IF resp.kind = "ok"
    THEN ~validateForm(fromValue, toValue, amountValue)
    ELSE convertBtnDisabled

\* a faulty variant: the finally block does not call validateForm
ButtonAfterSettleKept(resp) == convertBtnDisabled

\* this.convertBtn.disabled after the finally block: validateForm on the fields
ButtonAfterSettle(resp) == ~validateForm(fromValue, toValue, amountValue)

\* the rest of performConversion for the i-th pending request; `current' tells
\* whether the response is handled (the code handles every response)
Settle(i, resp, current) ==
    /\ i \in 1..Len(pending)
    /\ LET r == pending[i]
           rate == ConversionRate(resp.value, r.amount)
       IN  IF current
           THEN /\ resultsContent' =
                      IF resp.kind = "ok"
                      THEN displayResult(resp.value, r.fromCurrency, r.toCurrency,
                                         rate, <<r.amount>>)
                      ELSE showError(FailedToConvert)
                /\ lastConversion' = StoredConversion(resp, r, rate)
           ELSE UNCHANGED <<resultsContent, lastConversion>>
    /\ event' = Ev("resolve", IF resp.kind = "ok" THEN "ok" ELSE "failed",
                   i <= overtaken)
    /\ pending' = Resolved(pending, i)
    /\ overtaken' = Overtaken(overtaken, i, resp.kind = "ok")
    /\ convertBtnDisabled' = ButtonAfterSettle(resp)
    /\ UNCHANGED <<loadPc, currencies, fromOptions, toOptions, fromValue, toValue,
                   amountValue>>

\* a faulty variant: a generation guard drops the response of an overtaken request
resolveConversionGuarded(i, resp) == Settle(i, resp, i > overtaken)

\* the response of the i-th pending GET /latest arrives: the rest of performConversion
resolveConversion(i, resp) == Settle(i, resp, TRUE)

\* the page after the constructor ran: loadCurrencies is at its await
Init ==
    /\ loadPc = "awaiting"
    /\ currencies = Catalog({})
    /\ fromOptions = <<>>
    /\ toOptions = <<>>
    /\ fromValue = ""
    /\ toValue = ""
    /\ amountValue = <<>>
    /\ convertBtnDisabled \in BOOLEAN
    /\ resultsContent = showLoading(LoadingCurrencies)
    /\ lastConversion = <<>>
    /\ pending = <<>>
    /\ overtaken = 0
    /\ event = Ev("init", "none", FALSE)

Next ==
    \/ \E resp \in LoadResponses : loadCurrencies(resp)
    \/ \E a \in AmountInputs : InputAmount(a)
    \/ \E c \in DOMAIN CurrencyNames \cup {""} : ChangeFrom(c)
    \/ \E c \in DOMAIN CurrencyNames \cup {""} : ChangeTo(c)
    \/ handleConversion
    \/ swapCurrencies
    \/ \E i \in 1..MaxPending, resp \in ConvertResponses : resolveConversion(i, resp)

Spec == Init /\ [][Next]_vars

TypeOK ==
    /\ loadPc \in {"awaiting", "loaded", "failed", "threw"}
    /\ fromValue \in DOMAIN CurrencyNames \cup {""}
    /\ toValue \in DOMAIN CurrencyNames \cup {""}
    /\ amountValue \in AmountInputs
    /\ convertBtnDisabled \in BOOLEAN
    /\ Len(pending) <= MaxPending
    /\ Len(lastConversion) <= 1

(***************************************************************************)
(* Properties                                                               *)
(***************************************************************************)
\* the step just taken ran performConversion up to its return or its await
Performed == event'.op \in {"submit", "swap"} /\ event'.outcome \in {"invalid", "identity", "sent"}

\* the step just taken handled a successful response of GET /latest
ResolvedOk == event'.op = "resolve" /\ event'.outcome = "ok"

\* the step just taken handled a failed GET /latest
ResolvedFailed == event'.op = "resolve" /\ event'.outcome = "failed"

IsFinite(x) == x.k = "fin"

\* rate = convertedAmount / amount, stated without the division
IsQuotient(rate, convertedAmount, amount) ==
    IF amount.k = "inf"
    THEN rate = Num(0, 1)
    ELSE /\ rate.k = "fin"
         /\ rate.n * amount.n * convertedAmount.d = convertedAmount.n * rate.d * amount.d

\* C1: performConversion on equal selections A and A with a valid amount renders
\* a result whose convertedAmount is the amount and whose rate is 1, and sends
\* no request.
C1_IdentityIsLocal ==
    [][ ( /\ Performed
          /\ fromValue' # "" /\ fromValue' = toValue'
          /\ amountValue' # <<>> /\ Gt0(ParseFloat(amountValue')) )
        => /\ resultsContent'.kind = "result"
           /\ resultsContent'.convertedAmount = ParseFloat(amountValue')
           /\ resultsContent'.rate = Num(1, 1)
           /\ resultsContent'.fromCurrency = fromValue'
           /\ resultsContent'.toCurrency = fromValue'
           /\ pending' = pending ]_vars

C1_Witness ==
    /\ event.outcome = "identity"
    /\ resultsContent.kind = "result"
    /\ resultsContent.fromCurrency = resultsContent.toCurrency
    /\ resultsContent.convertedAmount = Num(10, 1)
    /\ resultsContent.rate = Num(1, 1)

\* the validation rule as the specification states it
ValidAsSpecified(f, t, a) ==
    f # "" /\ t # "" /\ a # <<>> /\ IsFinite(ParseFloat(a)) /\ Gt0(ParseFloat(a))

\* the step just taken ended with validateForm
Validated ==
    \/ event'.op \in {"edit", "resolve"}
    \/ event'.op = "load" /\ event'.outcome = "ok"

\* C2: validateForm enables submit if and only if both selections are non-empty,
\* the amount field is non-empty and the amount parses to a finite number
\* greater than 0.
C2_ValidationRule ==
    [][ Validated =>
          (convertBtnDisabled' = ~ValidAsSpecified(fromValue', toValue', amountValue')) ]_vars

\* the step just taken was a swap on two non-empty selections and a non-empty amount
SwapOnFilledForm ==
    event'.op = "swap" /\ fromValue # "" /\ toValue # "" /\ amountValue # <<>>

\* the step just taken ran performConversion on the selections f and t: it
\* rejected the fields, rendered the identity result, or sent the request f -> t
ConvertedFor(f, t) ==
    LET amount == ParseFloat(amountValue)
    IN  /\ Performed
        /\ IF Gt0(amount) /\ f # t
           THEN /\ event'.outcome = "sent"
                /\ pending' = Append(pending, Request(f, t, amount))
           ELSE /\ pending' = pending
                /\ resultsContent'.kind \in {"error", "result"}

\* C3 as stated: with both selections and the amount non-empty, swap immediately
\* issues a conversion for the mirrored request, whether or not a conversion
\* has succeeded before.
C3_SwapAlwaysConverts ==
    [][ SwapOnFilledForm =>
          /\ fromValue' = toValue /\ toValue' = fromValue
          /\ ConvertedFor(toValue, fromValue) ]_vars

\* C3 amended: with both selections and the amount non-empty, swap exchanges the
\* selections; if LastConversion is present it immediately issues a conversion
\* for the mirrored request; if LastConversion is absent it sends nothing and
\* leaves the results region alone.
C3_SwapConvertsAfterSuccess ==
    [][ SwapOnFilledForm =>
          /\ fromValue' = toValue /\ toValue' = fromValue
          /\ IF lastConversion # <<>>
             THEN ConvertedFor(toValue, fromValue)
             ELSE /\ event'.outcome = "none"
                  /\ pending' = pending
                  /\ resultsContent' = resultsContent ]_vars

C3_Witness ==
    /\ event = Ev("swap", "sent", FALSE)
    /\ lastConversion # <<>>
    /\ pending # <<>>
    /\ pending[Len(pending)].fromCurrency = fromValue
    /\ pending[Len(pending)].toCurrency = toValue
    /\ lastConversion[1].fromCurrency = toValue

\* C4: every successful response is rendered when it resolves, also the response
\* of a request that a later-issued one has outrun: the results region then
\* shows the request that resolved last, not the one issued last.
C4_LastResolvedWins ==
    [][ ResolvedOk =>
          \E i \in 1..Len(pending) :
            /\ pending' = Resolved(pending, i)
            /\ event'.stale = (i <= overtaken)
            /\ resultsContent'.kind = "result"
            /\ resultsContent'.fromCurrency = pending[i].fromCurrency
            /\ resultsContent'.toCurrency = pending[i].toCurrency
            /\ resultsContent'.displayAmount = pending[i].amount
            /\ resultsContent'.convertedAmount \in ConvertedAmounts ]_vars

\* the earlier-issued request resolved after the later-issued one had been
\* rendered, and the results region shows the earlier one
C4_Witness ==
    /\ event = Ev("resolve", "ok", TRUE)
    /\ pending = <<>>
    /\ resultsContent.kind = "result"
    /\ lastConversion # <<>>
    /\ lastConversion[1].fromCurrency = resultsContent.fromCurrency
    /\ resultsContent.fromCurrency = toValue
    /\ resultsContent.toCurrency = fromValue

\* C5: a failed conversion request replaces the results region by the
\* conversion-failure error and leaves LastConversion as it was.
C5_FailureKeepsLastConversion ==
    [][ ResolvedFailed =>
          /\ resultsContent' = showError(FailedToConvert)
          /\ lastConversion' = lastConversion ]_vars

C5_Witness ==
    /\ event.op = "resolve" /\ event.outcome = "failed"
    /\ resultsContent = showError(FailedToConvert)
    /\ lastConversion # <<>>

\* the step just taken rendered a conversion result: a successful response or
\* the identity short-circuit
ConversionSucceeded == ResolvedOk \/ event'.outcome = "identity"

\* LastConversion describes the conversion the results region shows
DescribesShown(last, shown) ==
    /\ last # <<>>
    /\ last[1].fromCurrency = shown.fromCurrency
    /\ last[1].toCurrency = shown.toCurrency
    /\ last[1].amount = shown.displayAmount
    /\ last[1].rate = shown.rate

\* C6 as stated: LastConversion is absent until the first successful conversion
\* and after every successful conversion it holds that conversion's
\* fromCurrency, toCurrency, amount and rate.
C6_EverySuccessStored ==
    [][ /\ (lastConversion' # lastConversion => ConversionSucceeded)
        /\ (ConversionSucceeded => DescribesShown(lastConversion', resultsContent')) ]_vars

\* C6 amended: LastConversion is absent until the first successful network
\* conversion; after every successful network conversion it holds the
\* fromCurrency, toCurrency and amount of that request and the rate computed
\* from its response; the identity short-circuit leaves it as it was.
C6_NetworkSuccessStored ==
    [][ /\ (lastConversion' # lastConversion => ResolvedOk)
        /\ (ResolvedOk =>
              /\ DescribesShown(lastConversion', resultsContent')
              /\ \E i \in 1..Len(pending) :
                    /\ pending' = Resolved(pending, i)
                    /\ lastConversion'[1].fromCurrency = pending[i].fromCurrency
                    /\ lastConversion'[1].toCurrency = pending[i].toCurrency
                    /\ lastConversion'[1].amount = pending[i].amount)
        /\ (event'.outcome = "identity" => lastConversion' = lastConversion) ]_vars

\* a second successful response has overwritten the first one's record while
\* the fields were edited in flight
C6_Witness ==
    /\ event.op = "resolve" /\ event.outcome = "ok"
    /\ DescribesShown(lastConversion, resultsContent)
    /\ lastConversion[1].fromCurrency # fromValue
    /\ lastConversion[1].amount # ParseFloat(amountValue)

\* a request as the service may be sent it
WellFormed(r) ==
    /\ Gt0(r.amount)
    /\ r.fromCurrency # "" /\ r.toCurrency # ""
    /\ r.fromCurrency # r.toCurrency

\* C7: every request sent carries an amount above 0 and two non-empty, distinct
\* currency codes; performConversion on invalid fields shows the validation
\* error and sends nothing.
C7_OnlyWellFormedRequests ==
    [][ /\ \A i \in 1..Len(pending') : WellFormed(pending'[i])
        /\ ( /\ Performed
             /\ (fromValue' = "" \/ toValue' = "" \/ amountValue' = <<>>
                   \/ ~Gt0(ParseFloat(amountValue'))) )
           => /\ resultsContent' = showError(FillInFields)
              /\ pending' = pending ]_vars

\* a swap ran performConversion on an amount that is not above 0
C7_Witness ==
    /\ event = Ev("swap", "invalid", FALSE)
    /\ resultsContent = showError(FillInFields)
    /\ fromValue # "" /\ toValue # ""
    /\ Le0(ParseFloat(amountValue))
    /\ pending # <<>>

\* C8: a failed catalog load is caught, shows the failed-to-load error, and
\* leaves the catalog empty and both selectors without a currency option.
C8_LoadFailureIsCaught ==
    [][ /\ loadPc' # "threw"
        /\ (event'.op = "load" /\ event'.outcome = "failed")
             => /\ loadPc' = "failed"
                /\ resultsContent' = showError(FailedToLoad)
        /\ loadPc' = "failed"
             => /\ DOMAIN currencies' = {}
                /\ fromOptions' = <<>> /\ toOptions' = <<>>
                /\ fromValue' = "" /\ toValue' = "" ]_vars

C8_Witness ==
    /\ loadPc = "failed"
    /\ event = Ev("load", "failed", FALSE)
    /\ resultsContent = showError(FailedToLoad)
    /\ DOMAIN currencies = {}

\* C9: for every successful network conversion the rate rendered and the rate
\* stored in LastConversion are the returned convertedAmount divided by the
\* amount of that same request.
C9_RateIsQuotient ==
    [][ ResolvedOk =>
          \E i \in 1..Len(pending) :
            /\ pending' = Resolved(pending, i)
            /\ resultsContent'.convertedAmount \in ConvertedAmounts
            /\ IsQuotient(resultsContent'.rate, resultsContent'.convertedAmount,
                          pending[i].amount)
            /\ lastConversion' # <<>>
            /\ lastConversion'[1].rate = resultsContent'.rate
            /\ lastConversion'[1].amount = pending[i].amount ]_vars

\* 92.15 returned for an amount of 10: the rate is 9.215
C9_Witness ==
    /\ event.op = "resolve" /\ event.outcome = "ok"
    /\ resultsContent.convertedAmount = Num(9215, 100)
    /\ resultsContent.displayAmount = Num(10, 1)
    /\ resultsContent.rate = Num(9215, 1000)
    /\ lastConversion[1].rate = Num(9215, 1000)

\* C10: after a successful catalog load fromCurrency is "USD" exactly when USD is
\* a catalog key and toCurrency is "EUR" exactly when EUR is one, otherwise the
\* placeholder; the submit state is the validation result for those fields.
C10_DefaultsAfterLoad ==
    [][ (event'.op = "load" /\ event'.outcome = "ok") =>
          /\ fromValue' = (IF "USD" \in DOMAIN currencies' THEN "USD" ELSE "")
          /\ toValue' = (IF "EUR" \in DOMAIN currencies' THEN "EUR" ELSE "")
          /\ convertBtnDisabled' =
               ~( /\ fromValue' # "" /\ toValue' # "" /\ amountValue' # <<>>
                  /\ Gt0(ParseFloat(amountValue')) ) ]_vars

\* a catalog without USD: only the target default is selected
C10_Witness ==
    /\ event = Ev("load", "ok", FALSE)
    /\ DOMAIN currencies = {"EUR"}
    /\ fromValue = "" /\ toValue = "EUR"
    /\ convertBtnDisabled

\* the fields as validateForm judges them, written out
FieldsValid(f, t, a) == f # "" /\ t # "" /\ a # <<>> /\ Gt0(ParseFloat(a))

\* the step just taken completed a call of performConversion: an early return
\* or the end of the handling of a response
Completed ==
    \/ Performed /\ event'.outcome \in {"invalid", "identity"}
    \/ event'.op = "resolve"

\* C11 as stated: after every call of performConversion completes, whatever its
\* outcome, the submit state is the validation result for the fields.
C11_AlwaysRevalidated ==
    [][ Completed =>
          (convertBtnDisabled' = ~FieldsValid(fromValue', toValue', amountValue')) ]_vars

\* C11 amended: after every call of performConversion that issued a request
\* completes, with a result or a failure, the submit state is the validation
\* result for the fields at that moment; the rejected-input return and the
\* identity short-circuit leave the submit state as it was.
C11_RevalidatedAfterRequest ==
    [][ /\ event'.op = "resolve"
          => (convertBtnDisabled' = ~FieldsValid(fromValue', toValue', amountValue'))
        /\ (Performed /\ event'.outcome \in {"invalid", "identity"})
          => convertBtnDisabled' = convertBtnDisabled ]_vars

\* a failed request resolved on valid fields: submit is enabled again
C11_Witness ==
    /\ event.op = "resolve" /\ event.outcome = "failed"
    /\ FieldsValid(fromValue, toValue, amountValue)
    /\ ~convertBtnDisabled
    /\ pending = <<>>

\* the catalog is loaded, no request is in flight and the fields are valid
ReadyToConvert ==
    /\ loadPc = "loaded"
    /\ pending = <<>>
    /\ FieldsValid(fromValue, toValue, amountValue)

\* C12: after a successful catalog load, whatever failed before, once the fields
\* are valid and no request is pending the submit action is enabled; a submit
\* on distinct currencies then sends the request, and the request just sent
\* can succeed, its response putting a result in the results region.
C12_NeverStuck ==
    /\ ReadyToConvert =>
         /\ ~convertBtnDisabled
         /\ ENABLED handleConversion
         /\ fromValue # toValue =>
              ENABLED ( /\ handleConversion
                        /\ pending' = <<Request(fromValue, toValue,
                                                ParseFloat(amountValue))>> )
    /\ (event.outcome = "sent" /\ Len(pending) = 1) =>
         ENABLED ( /\ resolveConversion(1, [kind |-> "ok", value |-> Num(9215, 100)])
                   /\ resultsContent'.kind = "result" )

\* a conversion failed and its error is shown; the page is ready for a retry
C12_Witness ==
    /\ ReadyToConvert
    /\ fromValue # toValue
    /\ event.op = "resolve" /\ event.outcome = "failed"
    /\ resultsContent = showError(FailedToConvert)
    /\ lastConversion = <<>>
    /\ ~convertBtnDisabled

\* C13 as stated: swap exchanges the two selections in every state of the
\* selectors, also when one of them is empty.
C13_SwapAlwaysExchanges ==
    [][ event'.op = "swap" => (fromValue' = toValue /\ toValue' = fromValue) ]_vars

\* C13 amended: swap exchanges the two selections when both are non-empty; when
\* one of them is empty it leaves both as they were.
C13_SwapExchangesFilled ==
    [][ event'.op = "swap" =>
          IF fromValue # "" /\ toValue # ""
          THEN fromValue' = toValue /\ toValue' = fromValue
          ELSE fromValue' = fromValue /\ toValue' = toValue ]_vars

\* a swap on a source selection and an empty target selection changed nothing
C13_Witness ==
    /\ event = Ev("swap", "skipped", FALSE)
    /\ fromValue = "USD"
    /\ toValue = ""
    /\ loadPc = "loaded"

\* C14: a conversion request is in flight only with the catalog loaded, and it
\* names two keys of the catalog; a failed load is never retried, and after it
\* the catalog and both selectors stay empty.
C14_RequestsNeedCatalog ==
    [][ /\ pending' # <<>> => loadPc' = "loaded"
        /\ \A i \in 1..Len(pending') :
              /\ pending'[i].fromCurrency \in DOMAIN currencies'
              /\ pending'[i].toCurrency \in DOMAIN currencies'
        /\ loadPc = "failed" => loadPc' = "failed"
        /\ loadPc' \in {"awaiting", "failed"}
             => /\ DOMAIN currencies' = {}
                /\ fromOptions' = <<>> /\ toOptions' = <<>>
                /\ event'.outcome # "sent" ]_vars

\* the user submitted after the load had failed: nothing was sent
C14_Witness ==
    /\ loadPc = "failed"
    /\ event = Ev("submit", "invalid", FALSE)
    /\ DOMAIN currencies = {}
    /\ pending = <<>>
    /\ resultsContent = showError(FillInFields)

\* C15: whenever neither the catalog load nor a conversion is pending, the
\* results region shows a result or an error, never a loading message.
C15_NoLoadingWhenIdle ==
    (loadPc # "awaiting" /\ pending = <<>>) => resultsContent.kind \in {"result", "error"}

\* C16: while a conversion request is in flight the submit action is disabled.
C16_DisabledWhileInFlight ==
    pending # <<>> => convertBtnDisabled

\* C17: the result rendered for a successful response and the record stored in
\* LastConversion carry the fromCurrency, toCurrency and amount the request was
\* issued with and the rate of its own response, whatever the fields hold when
\* the response arrives.
C17_CapturedValuesOnly ==
    [][ ResolvedOk =>
          \E i \in 1..Len(pending) :
            LET r == pending[i]
                shown == resultsContent'
            IN  /\ pending' = Resolved(pending, i)
                /\ shown.kind = "result"
                /\ <<shown.fromCurrency, shown.toCurrency, shown.displayAmount>>
                     = <<r.fromCurrency, r.toCurrency, r.amount>>
                /\ shown.toCurrencyName = CurrencyNames[r.toCurrency]
                /\ IsQuotient(shown.rate, shown.convertedAmount, r.amount)
                /\ lastConversion' =
                     <<[fromCurrency |-> r.fromCurrency, toCurrency |-> r.toCurrency,
                        amount |-> r.amount, rate |-> shown.rate]>> ]_vars

\* a response arrived after every field had been edited: none of the edits shows
C17_Witness ==
    /\ event.op = "resolve" /\ event.outcome = "ok"
    /\ resultsContent.kind = "result"
    /\ resultsContent.fromCurrency # fromValue
    /\ resultsContent.toCurrency # toValue
    /\ resultsContent.displayAmount = Num(10, 1)
    /\ amountValue = <<"a", "b", "c">>
    /\ lastConversion[1].amount = Num(10, 1)

====
